---- MODULE Spec2Model ----
(***************************************************************************)
(* The SCID tailer of scid_to_qdb.py: one supervisor process that, tick    *)
(* after tick, loads the checkpoint, reads the new records of the source   *)
(* file, fans the windows out to parallel workers that send and flush them *)
(* to QuestDB, and then rewrites the checkpoint file.                      *)
(*                                                                         *)
(* The source file is written by an external producer (append only); the   *)
(* process can be killed and restarted, and an operator can reset the      *)
(* checkpoint between ticks.  One call of get_scid_np sees one file size.  *)
(* SpecInterrupt adds a KeyboardInterrupt that arrives during fan-out.     *)
(*                                                                         *)
(* SpecStream is the start of a stream: main parses the file name and      *)
(* load_data_to_questdb attaches symbol, symbol_period and front_contract. *)
(*                                                                         *)
(* SpecMarker and SpecDeduplicate are compute_front_contract_questdb.py:   *)
(* a pass over the days and symbols of the trades table, statement by      *)
(* statement, in one transaction per day.  The marker runs alone: nothing  *)
(* is ingested while a pass is under way.                                  *)
(***************************************************************************)
EXTENDS Integers, Sequences, FiniteSets, Bags, TLC

\* ------------------------------------------------------------------ bounds
MaxRecords == 2
MaxTime == 2
ParallelWorkers == 2
BatchSize == 1
MaxFnOffset == 100
MaxFnSize == 140
MaxPlanRows == 12
MaxPlanBatch == 7
MaxStemLen == 7
MaxVolume == 3
MaxDay == 1
DayTicks == 2

\* ------------------------------------------------------- program constants
RecordSize == 40
HeaderSize == 56
\* SLEEP_DURATION's default, and the sleep before the retry after an error
SleepDuration == 1000
RetrySleep == 60
\* exit_code while the process runs, and when it is killed by a signal
Running == -1
Killed == 137

Workers == 1..ParallelWorkers
Streams == {"ESM5", "other"}
Mine == "ESM5"

\* partial trailing bytes the producer may leave after the last full record
Partials == {0, 24}
\* file sizes below the header: empty, too short for numpy to size, short
ShortSizes == {0, 10, 30}
MaxFileSize == HeaderSize + MaxRecords * RecordSize
FileSizes ==
  ShortSizes \cup
  { s \in HeaderSize..MaxFileSize :
      \E k \in 0..MaxRecords, r \in Partials : s = HeaderSize + k * RecordSize + r }

Min(a, b) == IF a <= b THEN a ELSE b
Max(a, b) == IF a >= b THEN a ELSE b

\* C integer division (numpy computes the item count in C: truncation to 0)
TruncDiv(a, b) == IF a >= 0 THEN a \div b ELSE -((-a) \div b)

\* number of complete records of a file of `size` bytes
FullRecords(size) == IF size < HeaderSize THEN 0 ELSE (size - HeaderSize) \div RecordSize

\* size rounded down to a record boundary past the header
RoundDown(size) == HeaderSize + FullRecords(size) * RecordSize

Aligned(pos) == pos >= HeaderSize /\ (pos - HeaderSize) % RecordSize = 0

VARIABLES
  file_size,        \* bytes of the source file on disk
  recs,             \* scdatetime of each complete record of the file
  checkpoint_file,  \* checkpoint_qdb.json on disk
  pc,               \* where the supervisor process is
  last_position,    \* main's last_position (as loaded, then as advanced)
  new_position,     \* main's new_position
  checkpoint_data,  \* main's checkpoint_data
  seen_size,        \* get_scid_np's file_size
  prev_size,        \* history: the file size the tick before this one saw
  arr,              \* the decoded array: first byte and number of records
  batches,          \* the deque of (start_idx, end_idx) windows
  wstate,           \* each worker's position in send_batch
  wwin,             \* each worker's window in flight
  db,               \* rows of the trades table per (time, symbol, symbol_period)
  flushed,          \* history: first bytes of the records ever flushed
  tick_sent,        \* history: records flushed in this tick (a bag)
  tick_writes,      \* history: checkpoint writes of this tick
  last_tick,        \* history: how the last tick ended
  started_at,       \* history: persisted last_position when the tick began
  high_water,       \* history: largest last_position the ticks persisted
  recovery,         \* history: kill or reset since the last successful tick
  BATCH_SIZE,       \* the environment's BATCH_SIZE, load_data_to_questdb's batch_size
  file_exists,      \* whether the source file is there
  loaded,           \* history: the checkpoint file as the tick found it
  exit_code,        \* exit code of the process once it has ended
  sleep_for         \* seconds of the supervisor's sleep after the tick

VARIABLES
  file_name,        \* Path(scid_file).stem, a sequence of characters
  symbol,           \* main's symbol
  symbol_period,    \* main's symbol_period
  df_processed      \* the rows load_data_to_questdb hands to the workers

stream_vars == << file_name, symbol, symbol_period, df_processed >>

VARIABLES
  trades,             \* the committed trades table, per (symbol, day, symbol_period)
  txn,                \* the table as the marker's open transaction sees it
  earliest,           \* min(time) of the table
  mpc,                \* where the marker is
  start_date,         \* main's start_date
  user_start_symbol,  \* main's user_start_symbol
  end_date,           \* main's end_date
  current_date,       \* main's current_date
  all_symbols,        \* main's all_symbols
  symbols_to_process, \* main's symbols_to_process
  sym_idx,            \* position of the for loop in symbols_to_process
  results,            \* deduplicate_data's results
  args,               \* history: the arguments of the pass
  calls,              \* history: the (day, symbol) of each deduplicate_data call of the pass
  commits,            \* history: the days the pass committed
  last_call           \* history: the last deduplicate_data call and its outcome

marker_vars == << trades, txn, earliest, mpc, start_date, user_start_symbol, end_date,
                  current_date, all_symbols, symbols_to_process, sym_idx, results,
                  args, calls, commits, last_call >>

loader_vars == << file_size, recs, checkpoint_file, pc, last_position, new_position,
                  checkpoint_data, seen_size, prev_size, arr, batches, wstate, wwin, db,
                  flushed, tick_sent, tick_writes, last_tick, started_at, high_water,
                  recovery, BATCH_SIZE, file_exists, loaded, exit_code, sleep_for >>

vars == << loader_vars, stream_vars, marker_vars >>

\* ------------------------------------------------------------- checkpoint
NoEntry == [present |-> FALSE, last_position |-> 0, initial_load_done |-> FALSE]
Entry(pos, done) == [present |-> TRUE, last_position |-> pos, initial_load_done |-> done]
EmptyDoc == [s \in Streams |-> NoEntry]
OtherDoc == [s \in Streams |-> IF s = "other" THEN Entry(HeaderSize + RecordSize, TRUE) ELSE NoEntry]

AbsentFile == [state |-> "absent", doc |-> EmptyDoc]
CorruptFile == [state |-> "corrupt", doc |-> EmptyDoc]
ValidFile(doc) == [state |-> "valid", doc |-> doc]
\* a file that exists and that open(checkpoint_file, "r") cannot read
UnreadableFile == [state |-> "unreadable", doc |-> EmptyDoc]

\* open(checkpoint_file, "r") raises OSError, which main does not catch
load_raises(f) == f.state = "unreadable"

\* json.load of the checkpoint file: {} when absent or not valid JSON
load_checkpoint(f) == IF f.state = "valid" THEN f.doc ELSE EmptyDoc

\* the persisted entry of a stream, with .get's defaults when there is none
Persisted(s) == load_checkpoint(checkpoint_file)[s]

\* mutant: the document written holds the entry of this stream only
updated_doc_fresh(doc, pos) == [EmptyDoc EXCEPT ![Mine] = Entry(pos, TRUE)]

\* checkpoint_data[f'{symbol}{symbol_period}'] = {...}
updated_doc(doc, pos) == [doc EXCEPT ![Mine] = Entry(pos, TRUE)]

\* ------------------------------------------------------- supervisor loop
\* mutant: any exception ends the loop
supervisor_break_on_error(outcome) ==
  IF outcome = "returned"
  THEN [exits |-> FALSE, sleep |-> SleepDuration, code |-> Running]
  ELSE [exits |-> TRUE, sleep |-> 0, code |-> 0]

\* the while True loop around main: after a return it sleeps SLEEP_DURATION;
\* KeyboardInterrupt and WorkerFailureException break out of the loop, and
\* the script ends there (exit status 0); any other Exception sleeps 60 s
supervisor(outcome) ==
  CASE outcome = "returned" ->
         [exits |-> FALSE, sleep |-> SleepDuration, code |-> Running]
    [] outcome \in {"KeyboardInterrupt", "WorkerFailureException"} ->
         [exits |-> TRUE, sleep |-> 0, code |-> 0]
    [] outcome = "SystemExit" ->
         [exits |-> TRUE, sleep |-> 0, code |-> 1]
    [] OTHER ->
         [exits |-> FALSE, sleep |-> RetrySleep, code |-> Running]

\* ------------------------------------------------------------ get_scid_np
\* mutant: the header is not skipped
seek_offset_no_header(fsize, offset) ==
  IF offset >= fsize THEN fsize - (fsize % RecordSize) ELSE offset

\* mutant: every read starts over after the header
seek_offset_from_header(fsize, offset) ==
  IF offset >= fsize THEN fsize - (fsize % RecordSize) ELSE HeaderSize

\* the offset adjustment before the seek
seek_offset(fsize, offset) ==
  IF offset >= fsize THEN fsize - (fsize % RecordSize)
  ELSE IF offset < HeaderSize THEN HeaderSize
  ELSE offset

\* mutant: a partial trailing record counts as a record
fromfile_count_round_up(fsize, off) == TruncDiv(fsize - off + RecordSize - 1, RecordSize)

\* np.fromfile: the item count is the bytes left divided by the item size
fromfile_count(fsize, off) == TruncDiv(fsize - off, RecordSize)

\* mutant: the new position is the end of the file
get_scid_np_to_end(fsize, offset) ==
  [raises |-> FALSE, start |-> seek_offset(fsize, offset),
   count |-> Max(0, fromfile_count(fsize, seek_offset(fsize, offset))),
   new_position |-> fsize]

\* get_scid_np(scidFile, offset) on a file of fsize bytes.  A seek a record
\* or more past the end gives np.fromfile a negative item count, and the
\* array creation raises ValueError (negative dimensions are not allowed).
get_scid_np(fsize, offset) ==
  LET off == seek_offset(fsize, offset)
      num == fromfile_count(fsize, off)
  IN  IF num < 0
      THEN [raises |-> TRUE, start |-> off, count |-> 0, new_position |-> off]
      ELSE [raises |-> FALSE, start |-> off, count |-> num,
            new_position |-> off + num * RecordSize]

\* mutant: an unchanged position counts as new data
has_new_data_or_equal(new_pos, last_pos) == new_pos >= last_pos

\* main's test that the read advanced: only then is there an update
has_new_data(new_pos, last_pos) == new_pos > last_pos

\* first bytes of the records of a decoded array
ArrOffsets(a) == { a.start + i * RecordSize : i \in 0..(a.count - 1) }
NoArr == [start |-> 0, count |-> 0]

\* ---------------------------------------------------------- batch planner
\* mutant: the first window is not planned (range(1, total_batches))
plan_batches_skip_first(total_rows, batch_size) ==
  LET total_batches == total_rows \div batch_size
                       + (IF total_rows % batch_size > 0 THEN 1 ELSE 0)
  IN  [i \in 1..(total_batches - 1) |->
         << i * batch_size, Min((i + 1) * batch_size, total_rows) >>]

plan_batches(total_rows, batch_size) ==
  LET total_batches == total_rows \div batch_size
                       + (IF total_rows % batch_size > 0 THEN 1 ELSE 0)
      all == [i \in 1..total_batches |->
                << (i - 1) * batch_size, Min(i * batch_size, total_rows) >>]
  IN  SelectSeq(all, LAMBDA w : w[1] < w[2])

\* mutant: the pop leaves the window in the deque
deque_pop_keep(q) == [item |-> q[Len(q)], rest |-> q]

\* deque.pop(): removes and returns the element at the right end
deque_pop(q) == [item |-> q[Len(q)], rest |-> SubSeq(q, 1, Len(q) - 1)]

NoWin == << 0, 0 >>
\* first bytes of the records of window w of the decoded array
WinOffsets(a, w) == { a.start + i * RecordSize : i \in w[1]..(w[2] - 1) }

\* ---------------------------------------------------------------- records
\* scdatetime of the record decoded at byte `off`: a record of the file when
\* the offset is on a record boundary, header or torn bytes (0) otherwise
time_at(off) ==
  IF Aligned(off) /\ (off - HeaderSize) \div RecordSize + 1 <= Len(recs)
  THEN recs[(off - HeaderSize) \div RecordSize + 1]
  ELSE 0

Times == 0..MaxTime

\* mutant: a table without DEDUP: every submitted record adds a row
insert_no_dedup(table, offs) ==
  [t \in DOMAIN table |-> table[t] + Cardinality({o \in offs : time_at(o) = t})]

\* DEDUP UPSERT KEYS(time, symbol, symbol_period): a row per key
dedup_upsert(table, offs) ==
  [t \in DOMAIN table |-> IF \E o \in offs : time_at(o) = t THEN 1 ELSE table[t]]

\* --------------------------------------------------------------- producer
\* the scdatetime sequences the producer may append: n records, each not
\* before the one before it
new_records(n, last) ==
  { q \in [1..n -> 1..MaxTime] :
      /\ \A i \in 1..n : q[i] >= last
      /\ \A i \in 1..(n - 1) : q[i] <= q[i + 1] }

LastTime == IF recs = << >> THEN 1 ELSE recs[Len(recs)]

\* ------------------------------------------------------ file name parsing
\* characters are one-character strings, a file stem is a sequence of them
UpperCase == {"A", "B", "C", "D", "E", "F", "G", "H", "I", "J", "K", "L", "M",
              "N", "O", "P", "Q", "R", "S", "T", "U", "V", "W", "X", "Y", "Z"}
Digits == {"0", "1", "2", "3", "4", "5", "6", "7", "8", "9"}
StemChars == {"E", "5", ".", "c"}
Stems == UNION {[1..n -> StemChars] : n \in 0..MaxStemLen}

\* the stem of scid_file as configured in the script
ScidStem == << "E", "S", "M", "5", ".", "C", "M", "E" >>

AllUpper(s) == \A i \in 1..Len(s) : s[i] \in UpperCase

\* ^([A-Z]{2,3})([A-Z]\d)\.([A-Z]+)$ with k characters in group 1
match_with(s, k) ==
  /\ Len(s) >= k + 4
  /\ AllUpper(SubSeq(s, 1, k + 1))
  /\ s[k + 2] \in Digits
  /\ s[k + 3] = "."
  /\ AllUpper(SubSeq(s, k + 4, Len(s)))

NoMatch == [matched |-> FALSE, group1 |-> << >>, group2 |-> << >>]
Groups(s, k) == [matched |-> TRUE, group1 |-> SubSeq(s, 1, k), group2 |-> SubSeq(s, k + 1, k + 2)]

\* mutant: group 1 is always two characters
re_match_two(s) == IF match_with(s, 2) THEN Groups(s, 2) ELSE NoMatch

\* re.match(pattern, file_name): the greedy {2,3} tries three characters
\* first and backtracks to two
re_match(s) ==
  IF match_with(s, 3) THEN Groups(s, 3)
  ELSE IF match_with(s, 2) THEN Groups(s, 2)
  ELSE NoMatch

FirstDot(s) == CHOOSE i \in 1..Len(s) : s[i] = "." /\ \A j \in 1..(i - 1) : s[j] # "."

\* file_name.split('.')
RECURSIVE split(_)
split(s) ==
  IF \E i \in 1..Len(s) : s[i] = "."
  THEN << SubSeq(s, 1, FirstDot(s) - 1) >> \o split(SubSeq(s, FirstDot(s) + 1, Len(s)))
  ELSE << s >>

\* main: symbol and symbol_period from the file name
parse_file_name(s) ==
  IF re_match(s).matched
  THEN [symbol |-> re_match(s).group1, symbol_period |-> re_match(s).group2]
  ELSE [symbol |-> IF Len(split(s)) > 0 THEN split(s)[1] ELSE << >>,
        symbol_period |-> IF Len(split(s)) > 1 THEN split(s)[2] ELSE << >>]

\* mutant: the symbol column holds the whole contract name
with_columns_contract(n, sym, per) ==
  [i \in 1..n |-> [row |-> i, symbol |-> sym \o per, symbol_period |-> per,
                   front_contract |-> FALSE]]

\* df.with_columns([... pl.lit(symbol), pl.lit(symbol_period), pl.lit(False)])
\* on a frame of n records
with_columns(n, sym, per) ==
  [i \in 1..n |-> [row |-> i, symbol |-> sym, symbol_period |-> per,
                   front_contract |-> FALSE]]

\* --------------------------------------------------- front-contract marker
\* a datetime is day * DayTicks + time of day; Today is the day of now()
Days == 0..MaxDay
Today == MaxDay
strftime_day(dt) == dt \div DayTicks
strptime_day(d) == d * DayTicks
timedelta_days(n) == n * DayTicks

ES == << "E", "S" >>
NQ == << "N", "Q" >>
es == << "e", "s" >>
MarkerSymbols == {ES, NQ, es}
None == << >>

H6 == << "H", "6" >>
U5 == << "U", "5" >>
Z5 == << "Z", "5" >>
Periods == {H6, U5, Z5}

UpperLetters == << "A", "B", "C", "D", "E", "F", "G", "H", "I", "J", "K", "L", "M",
                   "N", "O", "P", "Q", "R", "S", "T", "U", "V", "W", "X", "Y", "Z" >>
LowerLetters == << "a", "b", "c", "d", "e", "f", "g", "h", "i", "j", "k", "l", "m",
                   "n", "o", "p", "q", "r", "s", "t", "u", "v", "w", "x", "y", "z" >>
upper_char(c) ==
  IF \E i \in 1..Len(LowerLetters) : LowerLetters[i] = c
  THEN UpperLetters[CHOOSE i \in 1..Len(LowerLetters) : LowerLetters[i] = c]
  ELSE c
\* str.upper()
upper(str) == [i \in 1..Len(str) |-> upper_char(str[i])]

\* the rows of one (symbol, day, symbol_period): sum(volume) and the values
\* front_contract takes on them; no rows when `fronts` is empty
NoRows == [volume |-> 0, fronts |-> {}]
Rows(v, f) == [volume |-> v, fronts |-> f]
Keys == MarkerSymbols \X Days \X Periods
EmptyTable == [k \in Keys |-> NoRows]
PeriodsOf(t, sym, d) == { p \in Periods : t[<< sym, d, p >>].fronts # {} }
Slice(t, sym, d) == [p \in Periods |-> t[<< sym, d, p >>]]

Perms(S) == { q \in [1..Cardinality(S) -> S] : \A i, j \in DOMAIN q : q[i] = q[j] => i = j }

\* SELECT DISTINCT symbol FROM trades: the symbols, in an order the
\* database chooses
get_symbols(t) == Perms({ sym \in MarkerSymbols : \E d \in Days : PeriodsOf(t, sym, d) # {} })

\* SELECT symbol_period, sum(volume) ... GROUP BY symbol_period ORDER BY
\* total_volume DESC: periods of equal volume come in an order the database
\* chooses
select_results(t, sym, d) ==
  { q \in Perms(PeriodsOf(t, sym, d)) :
      \A i, j \in DOMAIN q :
        i < j => t[<< sym, d, q[i] >>].volume >= t[<< sym, d, q[j] >>].volume }

\* mutant: the last result is the one kept
symbol_period_to_keep_last(res) == res[Len(res)]

\* symbol_period_to_keep = results[0][0]
symbol_period_to_keep(res) == res[1]

\* mutant: only a (symbol, day) without rows is skipped
skips_empty_only(res) == Len(res) < 1

\* if len(results) <= 1: return
skips(res) == Len(res) <= 1

\* UPDATE trades SET front_contract = FALSE WHERE symbol and day
update_false(t, sym, d) ==
  [k \in Keys |->
     IF k[1] = sym /\ k[2] = d /\ t[k].fronts # {} THEN Rows(t[k].volume, {FALSE}) ELSE t[k]]

\* UPDATE trades SET front_contract = TRUE WHERE symbol, day and symbol_period
update_true(t, sym, d, p) ==
  [k \in Keys |->
     IF k = << sym, d, p >> /\ t[k].fronts # {} THEN Rows(t[k].volume, {TRUE}) ELSE t[k]]

\* mutant: the whole list from the start
symbols_from_start(symbols, start_symbol) == symbols

\* symbols_to_process: all_symbols[start_index:] when the start symbol is in
\* the list, all_symbols otherwise
symbols_from(symbols, start_symbol) ==
  IF start_symbol # None /\ \E i \in 1..Len(symbols) : symbols[i] = start_symbol
  THEN SubSeq(symbols, CHOOSE i \in 1..Len(symbols) : symbols[i] = start_symbol, Len(symbols))
  ELSE symbols

NoCall == [day |-> 0, symbol |-> None, outcome |-> "none", before |-> Slice(EmptyTable, ES, 0)]

\* the stream variables of the script as configured
stream_configured ==
  /\ file_name = ScidStem
  /\ symbol = parse_file_name(ScidStem).symbol
  /\ symbol_period = parse_file_name(ScidStem).symbol_period
  /\ df_processed = << >>

NoDate == -1
NoArgs == [date |-> NoDate, symbol |-> None, tod |-> 0]

\* the marker is not running and its view of the table is not modelled
marker_off ==
  /\ trades = None
  /\ txn = None
  /\ earliest = 0
  /\ mpc = "off"
  /\ start_date = 0
  /\ user_start_symbol = None
  /\ end_date = 0
  /\ current_date = 0
  /\ all_symbols = << >>
  /\ symbols_to_process = << >>
  /\ sym_idx = 1
  /\ results = << >>
  /\ args = None
  /\ calls = << >>
  /\ commits = << >>
  /\ last_call = None

Init ==
  /\ file_size = 0
  /\ recs = << >>
  /\ checkpoint_file \in {AbsentFile, ValidFile(OtherDoc), UnreadableFile}
  /\ pc = "idle"
  /\ last_position = 0
  /\ new_position = 0
  /\ checkpoint_data = EmptyDoc
  /\ seen_size = 0
  /\ prev_size = 0
  /\ arr = NoArr
  /\ batches = << >>
  /\ wstate = [w \in Workers |-> "ok"]
  /\ wwin = [w \in Workers |-> NoWin]
  /\ db = [t \in Times |-> 0]
  /\ flushed = {}
  /\ tick_sent = EmptyBag
  /\ tick_writes = 0
  /\ last_tick = "none"
  /\ started_at = 0
  /\ high_water = 0
  /\ recovery = "none"
  /\ BATCH_SIZE = BatchSize
  /\ file_exists \in BOOLEAN
  /\ loaded = AbsentFile
  /\ exit_code = Running
  /\ sleep_for = 0
  /\ stream_configured
  /\ marker_off

\* the external producer creates the source file or appends bytes to it
producer_append ==
  /\ \E s \in FileSizes :
       /\ s > file_size
       /\ file_size' = s
       /\ \E q \in new_records(FullRecords(s) - Len(recs), LastTime) : recs' = recs \o q
  /\ file_exists' = TRUE
  /\ UNCHANGED << checkpoint_file, pc, last_position, new_position, checkpoint_data,
                  seen_size, prev_size, arr, batches, wstate, wwin, db, flushed, tick_sent,
                  tick_writes, last_tick, started_at, high_water, recovery,
                  BATCH_SIZE, loaded, exit_code, sleep_for,
                  stream_vars, marker_vars >>

\* main has ended with `outcome`: the supervisor loop sleeps or breaks
supervisor_step(outcome) ==
  /\ pc' = IF supervisor(outcome).exits THEN "exited" ELSE "idle"
  /\ sleep_for' = supervisor(outcome).sleep
  /\ exit_code' = supervisor(outcome).code

\* main raises before it has decoded anything
main_aborts ==
  /\ supervisor_step("Exception")
  /\ arr' = NoArr
  /\ new_position' = 0
  /\ batches' = << >>
  /\ wstate' = [w \in Workers |-> "ok"]

\* main up to the start of the workers: load the checkpoint, read the file,
\* and either plan the windows and start the workers or skip the update
main_begin ==
  /\ pc = "idle"
  /\ loaded' = checkpoint_file
  /\ prev_size' = seen_size
  /\ tick_sent' = EmptyBag
  /\ tick_writes' = 0
  /\ wwin' = [w \in Workers |-> NoWin]
  /\ recovery' = IF last_tick = "ok" THEN "none" ELSE recovery
  /\ IF load_raises(checkpoint_file)
     THEN /\ main_aborts
          /\ last_tick' = "loaderror"
          /\ checkpoint_data' = EmptyDoc
          /\ last_position' = 0
          /\ started_at' = 0
          /\ UNCHANGED seen_size
     ELSE LET doc == load_checkpoint(checkpoint_file)
              lp == doc[Mine].last_position
              r == get_scid_np(file_size, lp)
          IN  /\ checkpoint_data' = doc
              /\ last_position' = lp
              /\ started_at' = lp
              /\ IF ~file_exists
                 THEN /\ main_aborts
                      /\ last_tick' = "nofile"
                      /\ UNCHANGED seen_size
                 ELSE /\ seen_size' = file_size
                      /\ IF r.raises
                         THEN /\ main_aborts
                              /\ last_tick' = "error"
                         ELSE /\ arr' = [start |-> r.start, count |-> r.count]
                              /\ new_position' = r.new_position
                              /\ IF has_new_data(r.new_position, lp)
                                 THEN /\ pc' = "fanout"
                                      /\ last_tick' = "running"
                                      /\ batches' = plan_batches(r.count, BATCH_SIZE)
                                      /\ wstate' = [w \in Workers |-> "start"]
                                      /\ sleep_for' = 0
                                      /\ UNCHANGED exit_code
                                 ELSE /\ supervisor_step("returned")
                                      /\ last_tick' = "noop"
                                      /\ batches' = << >>
                                      /\ wstate' = [w \in Workers |-> "ok"]
  /\ UNCHANGED << file_size, recs, checkpoint_file, db, flushed, high_water,
                  BATCH_SIZE, file_exists,
                  stream_vars, marker_vars >>

\* the worker threads run until the executor has shut down
executor_open == pc \in {"fanout", "draining"}

\* Sender.from_conf fails: the worker raises before it pops a window
send_batch_connect_fail(w) ==
  /\ executor_open
  /\ wstate[w] = "start"
  /\ wstate' = [wstate EXCEPT ![w] = "failed"]
  /\ UNCHANGED << file_size, recs, checkpoint_file, pc, last_position, new_position,
                  checkpoint_data, seen_size, prev_size, arr, batches, wwin, db, flushed,
                  tick_sent, tick_writes, last_tick, started_at, high_water, recovery,
                  BATCH_SIZE, file_exists, loaded, exit_code, sleep_for,
                  stream_vars, marker_vars >>

\* batches.pop(): the window at the right end of the deque
send_batch_pop(w) ==
  /\ executor_open
  /\ wstate[w] \in {"start", "ready"}
  /\ batches # << >>
  /\ wwin' = [wwin EXCEPT ![w] = deque_pop(batches).item]
  /\ batches' = deque_pop(batches).rest
  /\ wstate' = [wstate EXCEPT ![w] = "sending"]
  /\ UNCHANGED << file_size, recs, checkpoint_file, pc, last_position, new_position,
                  checkpoint_data, seen_size, prev_size, arr, db, flushed, tick_sent,
                  tick_writes, last_tick, started_at, high_water, recovery,
                  BATCH_SIZE, file_exists, loaded, exit_code, sleep_for,
                  stream_vars, marker_vars >>

\* batches.pop() raises IndexError: the worker ends successfully
send_batch_empty(w) ==
  /\ executor_open
  /\ wstate[w] \in {"start", "ready"}
  /\ batches = << >>
  /\ wstate' = [wstate EXCEPT ![w] = "ok"]
  /\ UNCHANGED << file_size, recs, checkpoint_file, pc, last_position, new_position,
                  checkpoint_data, seen_size, prev_size, arr, batches, wwin, db, flushed,
                  tick_sent, tick_writes, last_tick, started_at, high_water, recovery,
                  BATCH_SIZE, file_exists, loaded, exit_code, sleep_for,
                  stream_vars, marker_vars >>

\* dataframe() and flush() of the window succeed
send_batch_flush_ok(w) ==
  /\ executor_open
  /\ wstate[w] = "sending"
  /\ db' = dedup_upsert(db, WinOffsets(arr, wwin[w]))
  /\ flushed' = flushed \cup WinOffsets(arr, wwin[w])
  /\ tick_sent' = tick_sent (+) SetToBag(WinOffsets(arr, wwin[w]))
  /\ wstate' = [wstate EXCEPT ![w] = "ready"]
  /\ wwin' = [wwin EXCEPT ![w] = NoWin]
  /\ UNCHANGED << file_size, recs, checkpoint_file, pc, last_position, new_position,
                  checkpoint_data, seen_size, prev_size, arr, batches, tick_writes, last_tick,
                  started_at, high_water, recovery,
                  BATCH_SIZE, file_exists, loaded, exit_code, sleep_for,
                  stream_vars, marker_vars >>

\* mutant: the failed window is appended to the deque again
on_failure_readd(q, win) == Append(q, win)

\* except Exception: failed = True and break; the batches.append of the
\* failed window is commented out, the deque stays as it is
on_failure(q, win) == q

\* dataframe() or flush() raises: the worker stops and ends with failure
send_batch_flush_fail(w) ==
  /\ executor_open
  /\ wstate[w] = "sending"
  /\ wstate' = [wstate EXCEPT ![w] = "failed"]
  /\ batches' = on_failure(batches, wwin[w])
  /\ UNCHANGED << file_size, recs, checkpoint_file, pc, last_position, new_position,
                  checkpoint_data, seen_size, prev_size, arr, wwin, db, flushed, tick_sent,
                  tick_writes, last_tick, started_at, high_water, recovery,
                  BATCH_SIZE, file_exists, loaded, exit_code, sleep_for,
                  stream_vars, marker_vars >>

\* mutant: the join returns at the first future that has a result
some_returned == \E w \in Workers : wstate[w] \in {"ok", "failed"}
\* mutant: a failed future is not recorded
worker_failed_ignored == FALSE

\* mutant: the join waits until every future has returned without raising
all_succeeded == \A w \in Workers : wstate[w] = "ok"

\* the join: every future has a result; a future raised
all_returned == \A w \in Workers : wstate[w] \in {"ok", "failed"}
worker_failed == \E w \in Workers : wstate[w] = "failed"

\* the supervisor loop breaks or the process is killed: the process and its
\* memory are gone (checkpoint_data aside, kept as what the tick had loaded)
process_gone ==
  /\ pc' = "exited"
  /\ last_position' = 0
  /\ new_position' = 0
  /\ seen_size' = 0
  /\ prev_size' = 0
  /\ arr' = NoArr
  /\ batches' = << >>
  /\ wstate' = [w \in Workers |-> "ok"]
  /\ wwin' = [w \in Workers |-> NoWin]
  /\ tick_sent' = EmptyBag
  /\ tick_writes' = 0
  /\ started_at' = 0
  /\ sleep_for' = 0

\* every future has a result: raise WorkerFailureException (the supervisor
\* loop breaks: the process ends) or return to main, which advances
load_data_join ==
  /\ pc = "fanout"
  /\ all_returned
  /\ IF worker_failed
     THEN /\ process_gone
          /\ last_tick' = "workerfail"
          /\ exit_code' = supervisor("WorkerFailureException").code
          /\ loaded' = AbsentFile
     ELSE /\ pc' = "save"
          /\ last_position' = new_position
          /\ UNCHANGED << last_tick, new_position, seen_size, prev_size, arr,
                          batches, wstate, wwin, tick_sent, tick_writes, started_at,
                          loaded, exit_code, sleep_for,
                  stream_vars, marker_vars >>
  /\ UNCHANGED << file_size, recs, checkpoint_file, checkpoint_data, db, flushed,
                  high_water, recovery, BATCH_SIZE, file_exists,
                  stream_vars, marker_vars >>

\* KeyboardInterrupt reaches the main thread while it waits for a future:
\* it leaves the with block, whose exit is executor.shutdown(wait=True)
interrupt ==
  /\ pc = "fanout"
  /\ pc' = "draining"
  /\ UNCHANGED << file_size, recs, checkpoint_file, last_position, new_position,
                  checkpoint_data, seen_size, prev_size, arr, batches, wstate, wwin, db,
                  flushed, tick_sent, tick_writes, last_tick, started_at, high_water,
                  recovery, BATCH_SIZE, file_exists, loaded, exit_code, sleep_for,
                  stream_vars, marker_vars >>

\* every worker thread has ended: the KeyboardInterrupt goes on to the
\* supervisor loop, which breaks
executor_shutdown ==
  /\ pc = "draining"
  /\ all_returned
  /\ process_gone
  /\ last_tick' = "interrupted"
  /\ exit_code' = supervisor("KeyboardInterrupt").code
  /\ loaded' = AbsentFile
  /\ UNCHANGED << file_size, recs, checkpoint_file, checkpoint_data, db, flushed,
                  high_water, recovery, BATCH_SIZE, file_exists,
                  stream_vars, marker_vars >>

\* checkpoint_data[key] = {...}; open(checkpoint_file, "w") truncates the file
main_save_open ==
  /\ pc = "save"
  /\ checkpoint_data' = updated_doc(checkpoint_data, last_position)
  /\ checkpoint_file' = CorruptFile
  /\ tick_writes' = tick_writes + 1
  /\ pc' = "dump"
  /\ UNCHANGED << file_size, recs, last_position, new_position, seen_size, prev_size, arr,
                  batches, wstate, wwin, db, flushed, tick_sent, last_tick,
                  started_at, high_water, recovery,
                  BATCH_SIZE, file_exists, loaded, exit_code, sleep_for,
                  stream_vars, marker_vars >>

\* checkpoint_data[key] = {...}; open(checkpoint_file, "w") raises OSError
\* and leaves the file as it was
main_save_open_fail ==
  /\ pc = "save"
  /\ checkpoint_data' = updated_doc(checkpoint_data, last_position)
  /\ supervisor_step("Exception")
  /\ last_tick' = "savefail"
  /\ UNCHANGED << file_size, recs, checkpoint_file, last_position, new_position,
                  seen_size, prev_size, arr, batches, wstate, wwin, db, flushed, tick_sent,
                  tick_writes, started_at, high_water, recovery,
                  BATCH_SIZE, file_exists, loaded,
                  stream_vars, marker_vars >>

\* json.dump writes the document; main returns and the supervisor sleeps
main_save_dump ==
  /\ pc = "dump"
  /\ checkpoint_file' = ValidFile(checkpoint_data)
  /\ high_water' = Max(high_water, checkpoint_data[Mine].last_position)
  /\ supervisor_step("returned")
  /\ last_tick' = "ok"
  /\ UNCHANGED << file_size, recs, last_position, new_position, checkpoint_data,
                  seen_size, prev_size, arr, batches, wstate, wwin, db, flushed, tick_sent,
                  tick_writes, started_at, recovery,
                  BATCH_SIZE, file_exists, loaded,
                  stream_vars, marker_vars >>

\* json.dump or the close of the file raises OSError (the disk is full): the
\* truncated file is left empty or with a part of the document
main_save_dump_fail ==
  /\ pc = "dump"
  /\ supervisor_step("Exception")
  /\ last_tick' = "savefail"
  /\ UNCHANGED << file_size, recs, checkpoint_file, last_position, new_position,
                  checkpoint_data, seen_size, prev_size, arr, batches, wstate, wwin, db,
                  flushed, tick_sent, tick_writes, started_at, high_water, recovery,
                  BATCH_SIZE, file_exists, loaded,
                  stream_vars, marker_vars >>

\* the process is killed in the middle of a tick (between the return of
\* load_data_to_questdb and the end of json.dump: in the checkpoint save)
kill ==
  /\ pc \in {"fanout", "save", "dump"}
  /\ process_gone
  /\ checkpoint_data' = EmptyDoc
  /\ last_tick' = IF pc = "fanout" THEN "killed" ELSE "killed_in_save"
  /\ loaded' = IF pc = "fanout" THEN AbsentFile ELSE loaded
  /\ exit_code' = Killed
  /\ recovery' = IF pc \in {"fanout", "save"} /\ tick_sent # EmptyBag
                 THEN "killed" ELSE recovery
  /\ UNCHANGED << file_size, recs, checkpoint_file, db, flushed, high_water,
                  BATCH_SIZE, file_exists,
                  stream_vars, marker_vars >>

\* the operator starts the script again
restart ==
  /\ pc = "exited"
  /\ pc' = "idle"
  /\ exit_code' = Running
  /\ UNCHANGED << file_size, recs, checkpoint_file, last_position, new_position,
                  checkpoint_data, seen_size, prev_size, arr, batches, wstate, wwin, db,
                  flushed, tick_sent, tick_writes, last_tick, started_at,
                  high_water, recovery, BATCH_SIZE, file_exists, loaded, sleep_for,
                  stream_vars, marker_vars >>

\* the operator resets the stream's last_position to an earlier record
\* boundary while no tick is running
manual_reset ==
  /\ pc \in {"idle", "exited"}
  /\ checkpoint_file.state = "valid"
  /\ checkpoint_file.doc[Mine].present
  /\ \E k \in 0..MaxRecords :
       LET p == HeaderSize + k * RecordSize
       IN  /\ p < checkpoint_file.doc[Mine].last_position
           /\ checkpoint_file' =
                ValidFile([checkpoint_file.doc EXCEPT
                             ![Mine] = Entry(p, checkpoint_file.doc[Mine].initial_load_done)])
           /\ high_water' = p
  /\ recovery' = "reset"
  /\ last_tick' = "reset"
  /\ UNCHANGED << file_size, recs, pc, last_position, new_position, checkpoint_data,
                  seen_size, prev_size, arr, batches, wstate, wwin, db, flushed, tick_sent,
                  tick_writes, started_at,
                  BATCH_SIZE, file_exists, loaded, exit_code, sleep_for,
                  stream_vars, marker_vars >>

Next ==
  \/ producer_append
  \/ main_begin
  \/ \E w \in Workers : send_batch_connect_fail(w)
  \/ \E w \in Workers : send_batch_pop(w)
  \/ \E w \in Workers : send_batch_empty(w)
  \/ \E w \in Workers : send_batch_flush_ok(w)
  \/ \E w \in Workers : send_batch_flush_fail(w)
  \/ load_data_join
  \/ main_save_open
  \/ main_save_open_fail
  \/ main_save_dump
  \/ main_save_dump_fail
  \/ kill
  \/ restart
  \/ manual_reset

Spec == Init /\ [][Next]_vars

\* the same, with an operator who interrupts the process during fan-out
NextInterrupt == Next \/ interrupt \/ executor_shutdown

SpecInterrupt == Init /\ [][NextInterrupt]_vars

\* ------------------------------------------- create_table_if_not_exists
\* mutant: the database error is raised on to the supervisor loop
create_table_error_raised == "Exception"

\* except psycopg2.Error: print and sys.exit(1), which raises SystemExit
create_table_error == "SystemExit"

\* the first statement of main: connecting or CREATE TABLE IF NOT EXISTS
\* fails, before the file name is parsed and the checkpoint is read
main_create_table_fail ==
  /\ pc = "idle"
  /\ last_tick' = "tablefail"
  /\ IF supervisor(create_table_error).exits
     THEN /\ process_gone
          /\ exit_code' = supervisor(create_table_error).code
          /\ loaded' = AbsentFile
     ELSE /\ supervisor_step(create_table_error)
          /\ UNCHANGED << last_position, new_position, seen_size, prev_size, arr,
                          batches, wstate, wwin, tick_sent, tick_writes,
                          started_at, loaded >>
  /\ UNCHANGED << file_size, recs, checkpoint_file, checkpoint_data, db, flushed,
                  high_water, recovery, BATCH_SIZE, file_exists,
                  stream_vars, marker_vars >>

\* the ticks of a run in which the table creation may fail, with an
\* operator who starts the script again
NextCreateTable ==
  \/ producer_append
  \/ main_create_table_fail
  \/ main_begin
  \/ \E w \in Workers : send_batch_pop(w)
  \/ \E w \in Workers : send_batch_empty(w)
  \/ \E w \in Workers : send_batch_flush_ok(w)
  \/ load_data_join
  \/ main_save_open
  \/ main_save_dump
  \/ restart

SpecCreateTable == Init /\ [][NextCreateTable]_vars

\* a step of a worker thread
send_batch(w) ==
  \/ send_batch_connect_fail(w)
  \/ send_batch_pop(w)
  \/ send_batch_empty(w)
  \/ send_batch_flush_ok(w)
  \/ send_batch_flush_fail(w)

\* the run with a supervisor loop, worker threads and an operator that are
\* scheduled: a tick that can start starts, a call returns or raises, and a
\* script that has ended is started again
FairCatchUp ==
  /\ WF_vars(main_begin)
  /\ \A w \in Workers : WF_vars(send_batch(w))
  /\ WF_vars(load_data_join)
  /\ WF_vars(main_save_open \/ main_save_open_fail)
  /\ WF_vars(main_save_dump \/ main_save_dump_fail)
  /\ WF_vars(restart)

SpecCatchUp == Init /\ [][Next]_vars /\ FairCatchUp

\* the fan-out of the first tick of a run: the workers and the join, with
\* threads that are scheduled and submit/flush calls that return or raise
NextFanOut ==
  \/ producer_append
  \/ main_begin
  \/ \E w \in Workers : send_batch_connect_fail(w)
  \/ \E w \in Workers : send_batch_pop(w)
  \/ \E w \in Workers : send_batch_empty(w)
  \/ \E w \in Workers : send_batch_flush_ok(w)
  \/ \E w \in Workers : send_batch_flush_fail(w)
  \/ load_data_join

FairFanOut ==
  /\ \A w \in Workers : WF_vars(send_batch(w))
  /\ WF_vars(load_data_join)

SpecFanOut == Init /\ [][NextFanOut]_vars /\ FairFanOut

\* ------------------------------------------- get_scid_np as a function
\* any offset and any file size
InitGetScidNp ==
  /\ file_size \in 0..MaxFnSize
  /\ last_position \in 0..MaxFnOffset
  /\ pc = "call"
  /\ recs = << >>
  /\ checkpoint_file = AbsentFile
  /\ new_position = 0
  /\ checkpoint_data = EmptyDoc
  /\ seen_size = 0
  /\ prev_size = 0
  /\ arr = NoArr
  /\ batches = << >>
  /\ wstate = [w \in Workers |-> "ok"]
  /\ wwin = [w \in Workers |-> NoWin]
  /\ db = [t \in Times |-> 0]
  /\ flushed = {}
  /\ tick_sent = EmptyBag
  /\ tick_writes = 0
  /\ last_tick = "none"
  /\ started_at = 0
  /\ high_water = 0
  /\ recovery = "none"
  /\ BATCH_SIZE = BatchSize
  /\ file_exists = TRUE
  /\ loaded = AbsentFile
  /\ exit_code = Running
  /\ sleep_for = 0
  /\ stream_configured
  /\ marker_off

\* intermediate_np_array, new_position = get_scid_np(scid_file, offset=last_position)
call_get_scid_np ==
  /\ pc = "call"
  /\ LET r == get_scid_np(file_size, last_position)
     IN  /\ pc' = IF r.raises THEN "raised" ELSE "returned"
         /\ arr' = [start |-> r.start, count |-> r.count]
         /\ new_position' = r.new_position
         /\ seen_size' = file_size
  /\ UNCHANGED << file_size, recs, checkpoint_file, last_position, checkpoint_data,
                  prev_size, batches, wstate, wwin, db, flushed, tick_sent,
                  tick_writes, last_tick, started_at, high_water, recovery,
                  BATCH_SIZE, file_exists, loaded, exit_code, sleep_for,
                  stream_vars, marker_vars >>

SpecGetScidNp == InitGetScidNp /\ [][call_get_scid_np]_vars

\* ------------------------------------------ the batch planner as a function
\* any number of rows and any batch size
InitPlanBatches ==
  /\ arr \in [start : {HeaderSize}, count : 0..MaxPlanRows]
  /\ BATCH_SIZE \in 1..MaxPlanBatch
  /\ pc = "plan"
  /\ file_size = 0
  /\ recs = << >>
  /\ checkpoint_file = AbsentFile
  /\ last_position = 0
  /\ new_position = 0
  /\ checkpoint_data = EmptyDoc
  /\ seen_size = 0
  /\ prev_size = 0
  /\ batches = << >>
  /\ wstate = [w \in Workers |-> "ok"]
  /\ wwin = [w \in Workers |-> NoWin]
  /\ db = [t \in Times |-> 0]
  /\ flushed = {}
  /\ tick_sent = EmptyBag
  /\ tick_writes = 0
  /\ last_tick = "none"
  /\ started_at = 0
  /\ high_water = 0
  /\ recovery = "none"
  /\ file_exists = TRUE
  /\ loaded = AbsentFile
  /\ exit_code = Running
  /\ sleep_for = 0
  /\ stream_configured
  /\ marker_off

\* load_data_to_questdb fills the deque for a frame of arr.count rows
call_plan_batches ==
  /\ pc = "plan"
  /\ batches' = plan_batches(arr.count, BATCH_SIZE)
  /\ pc' = "planned"
  /\ UNCHANGED << file_size, recs, checkpoint_file, last_position, new_position,
                  checkpoint_data, seen_size, prev_size, arr, wstate, wwin, db, flushed,
                  tick_sent, tick_writes, last_tick, started_at, high_water, recovery,
                  BATCH_SIZE, file_exists, loaded, exit_code, sleep_for,
                  stream_vars, marker_vars >>

SpecPlanBatches == InitPlanBatches /\ [][call_plan_batches]_vars

\* ---------------------------------------- specification of the stream start
InitStream ==
  /\ file_size = 0
  /\ recs = << >>
  /\ checkpoint_file = AbsentFile
  /\ pc = "start"
  /\ last_position = 0
  /\ new_position = 0
  /\ checkpoint_data = EmptyDoc
  /\ seen_size = 0
  /\ prev_size = 0
  /\ arr = NoArr
  /\ batches = << >>
  /\ wstate = [w \in Workers |-> "ok"]
  /\ wwin = [w \in Workers |-> NoWin]
  /\ db = [t \in Times |-> 0]
  /\ flushed = {}
  /\ tick_sent = EmptyBag
  /\ tick_writes = 0
  /\ last_tick = "none"
  /\ started_at = 0
  /\ high_water = 0
  /\ recovery = "none"
  /\ BATCH_SIZE = BatchSize
  /\ file_exists = TRUE
  /\ loaded = AbsentFile
  /\ exit_code = Running
  /\ sleep_for = 0
  /\ file_name \in Stems
  /\ symbol = << >>
  /\ symbol_period = << >>
  /\ df_processed = << >>
  /\ marker_off

\* main derives symbol and symbol_period from the file name
main_parse ==
  /\ pc = "start"
  /\ symbol' = parse_file_name(file_name).symbol
  /\ symbol_period' = parse_file_name(file_name).symbol_period
  /\ pc' = "parsed"
  /\ UNCHANGED << file_size, recs, checkpoint_file, last_position, new_position,
                  checkpoint_data, seen_size, prev_size, arr, batches, wstate, wwin, db,
                  flushed, tick_sent, tick_writes, last_tick, started_at, high_water,
                  recovery, BATCH_SIZE, file_exists, loaded, exit_code, sleep_for,
                  file_name, df_processed, marker_vars >>

\* load_data_to_questdb builds the rows of a tick that decoded n records
load_data_with_columns ==
  /\ pc = "parsed"
  /\ \E n \in 1..MaxRecords :
       /\ arr' = [start |-> HeaderSize, count |-> n]
       /\ df_processed' = with_columns(n, symbol, symbol_period)
  /\ pc' = "submitted"
  /\ UNCHANGED << file_size, recs, checkpoint_file, last_position, new_position,
                  checkpoint_data, seen_size, prev_size, batches, wstate, wwin, db,
                  flushed, tick_sent, tick_writes, last_tick, started_at, high_water,
                  recovery, BATCH_SIZE, file_exists, loaded, exit_code, sleep_for,
                  file_name, symbol, symbol_period, marker_vars >>

NextStream == main_parse \/ load_data_with_columns

SpecStream == InitStream /\ [][NextStream]_vars

\* ------------------------------------------------------------ the claims
\* first bytes of the complete records of a file of `size` bytes
RecordsOf(size) == { HeaderSize + j * RecordSize : j \in 0..(FullRecords(size) - 1) }
AnyWorkerFailed == \E w \in Workers : wstate[w] = "failed"
EveryWorkerOk == \A w \in Workers : wstate[w] = "ok"
InTick == pc \in {"fanout", "save", "dump"}
TickDoneOk == pc = "idle" /\ last_tick = "ok"
\* the checkpoint file still holds what the tick loaded
FileAsLoaded == load_checkpoint(checkpoint_file) = checkpoint_data
\* the records a tick that starts at `from` has to deliver from `size` bytes
Due(from, size) == { o \in RecordsOf(size) : o >= from }
\* the table after an uninterrupted run over the records below `pos`
TableUpTo(pos) ==
  [t \in Times |-> IF \E o \in RecordsOf(pos) : time_at(o) = t THEN 1 ELSE 0]

\* ------------------------------------------------ actions of the marker
\* the loader is not running
loader_off ==
  /\ file_size = 0
  /\ recs = << >>
  /\ checkpoint_file = AbsentFile
  /\ pc = "off"
  /\ last_position = 0
  /\ new_position = 0
  /\ checkpoint_data = EmptyDoc
  /\ seen_size = 0
  /\ prev_size = 0
  /\ arr = NoArr
  /\ batches = << >>
  /\ wstate = [w \in Workers |-> "ok"]
  /\ wwin = [w \in Workers |-> NoWin]
  /\ db = [t \in Times |-> 0]
  /\ flushed = {}
  /\ tick_sent = EmptyBag
  /\ tick_writes = 0
  /\ last_tick = "none"
  /\ started_at = 0
  /\ high_water = 0
  /\ recovery = "none"
  /\ BATCH_SIZE = BatchSize
  /\ file_exists = FALSE
  /\ loaded = AbsentFile
  /\ exit_code = Running
  /\ sleep_for = 0

TableEmpty(t) == \A k \in Keys : t[k].fronts = {}

\* get_start_date: min(time) of the table, now() when there is none
get_start_date(now) == IF TableEmpty(trades) THEN now ELSE earliest

\* what --symbol or the prompt can be given
ArgSymbols == {None, ES, NQ, es}

\* main up to the loop over the days, started with --date `date` (NoDate:
\* the earliest time of the table) and --symbol `sym` when now() has the
\* time of day `tod`; no row of the table is later than now()
main_until_loop(date, sym, tod) ==
  \E symbols \in get_symbols(trades) :
    LET now == Today * DayTicks + tod
        start == IF date = NoDate THEN get_start_date(now) ELSE strptime_day(date)
    IN /\ TableEmpty(trades) \/ earliest <= now
       /\ args' = [date |-> date, symbol |-> sym, tod |-> tod]
       /\ start_date' = start
       /\ user_start_symbol' = upper(sym)
       /\ all_symbols' = symbols
       /\ symbols_to_process' = symbols_from(symbols, upper(sym))
       /\ end_date' = now
       /\ current_date' = start
       /\ mpc' = IF symbols # << >> /\ start <= now THEN "select" ELSE "done"
       /\ txn' = trades
       /\ sym_idx' = 1
       /\ results' = << >>
       /\ calls' = << >>
       /\ commits' = << >>
       /\ last_call' = NoCall
       /\ UNCHANGED << trades, earliest, loader_vars, stream_vars >>

\* the marker is started
marker_main ==
  /\ mpc = "off"
  /\ \E date \in {NoDate} \cup Days, sym \in ArgSymbols, tod \in 0..(DayTicks - 1) :
       main_until_loop(date, sym, tod)

\* the marker is started again with the same arguments after a pass has ended
marker_again ==
  /\ mpc = "done"
  /\ \E tod \in args.tod..(DayTicks - 1) : main_until_loop(args.date, args.symbol, tod)

symbol_now == symbols_to_process[sym_idx]
date_str == strftime_day(current_date)

\* deduplicate_data returns: the for loop goes on, or the day is over
dedup_returns ==
  /\ sym_idx' = sym_idx + 1
  /\ mpc' = IF sym_idx < Len(symbols_to_process) THEN "select" ELSE "commit"
  /\ results' = << >>

\* deduplicate_data: the SELECT, and the return when there is nothing to mark
dedup_select ==
  /\ mpc = "select"
  /\ calls' = Append(calls, << date_str, symbol_now >>)
  /\ \E res \in select_results(txn, symbol_now, date_str) :
       IF skips(res)
       THEN /\ dedup_returns
            /\ last_call' = [day |-> date_str, symbol |-> symbol_now, outcome |-> "skipped",
                             before |-> Slice(txn, symbol_now, date_str)]
       ELSE /\ results' = res
            /\ mpc' = "update_false"
            /\ last_call' = [day |-> date_str, symbol |-> symbol_now, outcome |-> "running",
                             before |-> Slice(txn, symbol_now, date_str)]
            /\ UNCHANGED sym_idx
  /\ UNCHANGED << trades, txn, earliest, start_date, user_start_symbol, end_date,
                  current_date, all_symbols, symbols_to_process, args, commits,
                  loader_vars, stream_vars >>

\* deduplicate_data: the first UPDATE
dedup_update_false ==
  /\ mpc = "update_false"
  /\ txn' = update_false(txn, symbol_now, date_str)
  /\ mpc' = "update_true"
  /\ UNCHANGED << trades, earliest, start_date, user_start_symbol, end_date,
                  current_date, all_symbols, symbols_to_process, sym_idx, results, args,
                  calls, commits, last_call, loader_vars, stream_vars >>

\* deduplicate_data: the second UPDATE, and the return
dedup_update_true ==
  /\ mpc = "update_true"
  /\ txn' = update_true(txn, symbol_now, date_str, symbol_period_to_keep(results))
  /\ last_call' = [last_call EXCEPT !.outcome = "marked"]
  /\ dedup_returns
  /\ UNCHANGED << trades, earliest, start_date, user_start_symbol, end_date,
                  current_date, all_symbols, symbols_to_process, args, calls, commits,
                  loader_vars, stream_vars >>

\* deduplicate_data: a statement raises psycopg2.Error; the handler rolls
\* the connection's open transaction back and the function returns
dedup_error ==
  /\ mpc \in {"select", "update_false", "update_true"}
  /\ txn' = trades
  /\ calls' = IF mpc = "select" THEN Append(calls, << date_str, symbol_now >>) ELSE calls
  /\ last_call' = [day |-> date_str, symbol |-> symbol_now, outcome |-> "error",
                   before |-> IF mpc = "select" THEN Slice(txn, symbol_now, date_str)
                              ELSE last_call.before]
  /\ dedup_returns
  /\ UNCHANGED << trades, earliest, start_date, user_start_symbol, end_date,
                  current_date, all_symbols, symbols_to_process, args, commits,
                  loader_vars, stream_vars >>

\* main: conn.commit() after the symbols of the day, then the next day
day_commit ==
  /\ mpc = "commit"
  /\ trades' = txn
  /\ commits' = Append(commits, date_str)
  /\ current_date' = current_date + timedelta_days(1)
  /\ symbols_to_process' = all_symbols
  /\ sym_idx' = 1
  /\ mpc' = IF current_date + timedelta_days(1) <= end_date THEN "select" ELSE "done"
  /\ UNCHANGED << txn, earliest, start_date, user_start_symbol, end_date, all_symbols,
                  results, args, calls, last_call, loader_vars, stream_vars >>

NextMarker ==
  \/ marker_main
  \/ dedup_select
  \/ dedup_update_false
  \/ dedup_update_true
  \/ dedup_error
  \/ day_commit

\* the table of the pass: the symbols that have rows have them on every day
\* from the first one on, in two periods
PassTables ==
  { [k \in Keys |->
       IF k[1] \in present /\ k[2] >= first /\ k[3] \in {U5, Z5}
       THEN Rows(IF k[3] = U5 THEN MaxVolume ELSE 1, {FALSE})
       ELSE NoRows] :
    present \in SUBSET MarkerSymbols \ {{}}, first \in Days }

FirstDay(t) == CHOOSE d \in Days : /\ \E sym \in MarkerSymbols : PeriodsOf(t, sym, d) # {}
                                   /\ \A e \in 0..(d - 1), sym \in MarkerSymbols :
                                        PeriodsOf(t, sym, e) = {}

marker_before(tables) ==
  /\ trades \in tables
  /\ txn = trades
  /\ earliest \in IF TableEmpty(trades) THEN {0}
                  ELSE { strptime_day(FirstDay(trades)) + tod : tod \in 0..(DayTicks - 1) }
  /\ mpc = "off"
  /\ start_date = 0
  /\ user_start_symbol = None
  /\ end_date = 0
  /\ current_date = 0
  /\ all_symbols = << >>
  /\ symbols_to_process = << >>
  /\ sym_idx = 1
  /\ results = << >>
  /\ args = NoArgs
  /\ calls = << >>
  /\ commits = << >>
  /\ last_call = NoCall

InitMarker ==
  /\ loader_off
  /\ stream_configured
  /\ marker_before(PassTables)

SpecMarker == InitMarker /\ [][NextMarker]_vars

\* the table of one (symbol, day): each period has no rows, or rows of some
\* total volume as the ingester delivered them
DayTables ==
  { [k \in Keys |->
       IF k[1] = ES /\ k[2] = Today /\ vol[k[3]] > 0
       THEN Rows(vol[k[3]], {FALSE})
       ELSE NoRows] :
    vol \in [Periods -> 0..MaxVolume] }

InitDeduplicate ==
  /\ loader_off
  /\ stream_configured
  /\ marker_before(DayTables)

NextDeduplicate == NextMarker \/ marker_again

SpecDeduplicate == InitDeduplicate /\ [][NextDeduplicate]_vars

\* ------------------------------------------ ingester next to the marker
\* a tick of the ingester of (sym, p) submits again records of day d that
\* the table holds: DEDUP UPSERT KEYS(time, symbol, symbol_period) replaces
\* each row that is submitted again by the submitted row, whose
\* front_contract is False; `whole`: every row of the day, or some of them
resubmit(t, sym, d, p, whole) ==
  [t EXCEPT ![<< sym, d, p >>] =
     Rows(@.volume, IF whole THEN {FALSE} ELSE @.fronts \cup {FALSE})]

\* a tick of the ingester of (sym, p) delivers new records of day d with
\* the total volume v: new rows, front_contract False
append_rows(t, sym, d, p, v) ==
  [t EXCEPT ![<< sym, d, p >>] = Rows(@.volume + v, @.fronts \cup {FALSE})]

\* an ingestion tick after a pass of the marker: records delivered before
\* are submitted again (a restart below the delivered records)
ingest_resubmit ==
  /\ mpc = "done"
  /\ \E sym \in MarkerSymbols, d \in Days, p \in Periods, whole \in BOOLEAN :
       /\ trades[<< sym, d, p >>].fronts # {}
       /\ trades' = resubmit(trades, sym, d, p, whole)
       /\ txn' = resubmit(trades, sym, d, p, whole)
  /\ UNCHANGED << earliest, mpc, start_date, user_start_symbol, end_date,
                  current_date, all_symbols, symbols_to_process, sym_idx, results,
                  args, calls, commits, last_call, loader_vars, stream_vars >>

\* an ingestion tick after a pass of the marker: the producer has appended
\* records of a day the table has rows of
ingest_append ==
  /\ mpc = "done"
  /\ \E sym \in MarkerSymbols, d \in Days, p \in Periods :
       /\ trades[<< sym, d, p >>].fronts # {}
       /\ \E v \in 1..(MaxVolume - trades[<< sym, d, p >>].volume) :
            /\ trades' = append_rows(trades, sym, d, p, v)
            /\ txn' = append_rows(trades, sym, d, p, v)
  /\ UNCHANGED << earliest, mpc, start_date, user_start_symbol, end_date,
                  current_date, all_symbols, symbols_to_process, sym_idx, results,
                  args, calls, commits, last_call, loader_vars, stream_vars >>

\* a pass of the marker in which no statement fails, and ingestion ticks
\* after it
NextInterleave ==
  \/ marker_main
  \/ dedup_select
  \/ dedup_update_false
  \/ dedup_update_true
  \/ day_commit
  \/ ingest_resubmit
  \/ ingest_append

SpecInterleave == InitDeduplicate /\ [][NextInterleave]_vars

\* C1: every record of the file that lies entirely below the persisted
\* last_position of the stream has been flushed to the database at least once.
C1_BelowCheckpointFlushed ==
  \A o \in RecordsOf(file_size) :
    o + RecordSize <= Persisted(Mine).last_position => o \in flushed

C1_Witness ==
  /\ Persisted(Mine).last_position = HeaderSize + 2 * RecordSize
  /\ TickDoneOk
  /\ started_at = HeaderSize + RecordSize

\* C2: a persisted last_position is on a record boundary past the header and
\* not below any that a tick persisted before; a tick that writes the
\* checkpoint writes one that is not below the one it loaded.
C2_PositionAlignedMonotone ==
  /\ (checkpoint_file.state = "valid" /\ checkpoint_file.doc[Mine].present =>
        /\ Aligned(checkpoint_file.doc[Mine].last_position)
        /\ checkpoint_file.doc[Mine].last_position >= high_water)
  /\ (TickDoneOk =>
        /\ Persisted(Mine).present
        /\ Persisted(Mine).last_position >= started_at)

C2_Witness ==
  /\ TickDoneOk
  /\ started_at = HeaderSize + RecordSize
  /\ Persisted(Mine).last_position = HeaderSize + 2 * RecordSize
  /\ high_water = HeaderSize + 2 * RecordSize

\* C3: while the workers run, and after a tick that ended with a worker
\* failure, the checkpoint file holds what the tick loaded (every stream's
\* entry is the same as before the tick); a tick with a failed worker never
\* reaches the checkpoint save.
C3_FailedTickKeepsCheckpoint ==
  /\ (pc = "fanout" \/ last_tick = "workerfail" => FileAsLoaded /\ tick_writes = 0)
  /\ (last_tick = "workerfail" => pc \in {"exited", "idle"})
  /\ (pc \in {"save", "dump"} => ~AnyWorkerFailed)

\* the tick failed although a sibling delivered records beyond the checkpoint
C3_Witness ==
  /\ pc = "exited"
  /\ last_tick = "workerfail"
  /\ recovery = "none"
  /\ Persisted(Mine).present
  /\ Persisted("other").present
  /\ \E o \in flushed : o >= Persisted(Mine).last_position

\* C4: the checkpoint file is written at most once in a tick, not before or
\* while the workers flush, and only when every worker has returned
\* successfully, the deque is empty and every decoded record has been flushed.
C4_WriteOnceAfterFlushes ==
  /\ tick_writes <= 1
  /\ (pc \in {"fanout", "save"} => tick_writes = 0 /\ FileAsLoaded)
  /\ (pc \in {"save", "dump"} \/ TickDoneOk =>
        /\ EveryWorkerOk
        /\ batches = << >>
        /\ tick_sent = SetToBag(ArrOffsets(arr)))
  /\ (pc = "dump" \/ TickDoneOk => tick_writes = 1)

C4_Witness ==
  /\ pc = "dump"
  /\ tick_writes = 1
  /\ arr.count = 2
  /\ BagCardinality(tick_sent) = 2

\* C5: the first successful tick after a kill that followed a flush, or after
\* a reset of the checkpoint to an earlier record boundary, delivers exactly
\* the records from the old last_position on, each once; the table then holds
\* one row per key of the records below the new last_position, and the new
\* last_position is the size the tick saw rounded down, as in a run that was
\* never interrupted.
C5_ResumeEqualsUninterrupted ==
  (TickDoneOk /\ recovery \in {"killed", "reset"}) =>
    /\ tick_sent = SetToBag(Due(started_at, seen_size))
    /\ Persisted(Mine).last_position = RoundDown(seen_size)
    /\ db = TableUpTo(Persisted(Mine).last_position)

\* resumed after a kill: a record flushed before the kill was sent again
C5_Witness ==
  /\ TickDoneOk
  /\ recovery = "killed"
  /\ started_at = HeaderSize + RecordSize
  /\ seen_size = HeaderSize + 2 * RecordSize
  /\ recs = << 1, 2 >>
  /\ db = [t \in Times |-> IF t \in {1, 2} THEN 1 ELSE 0]

\* C6: a successful tick that loaded no last_position (cold start) or one on
\* a record boundary, on a file of 56 + 40*N bytes, delivers exactly the
\* records from the loaded position to the end, each once and none before it,
\* and persists last_position = 56 + 40*N with initial_load_done.
C6_ColdStartAndAppend ==
  (TickDoneOk /\ Aligned(seen_size) /\ (started_at = 0 \/ Aligned(started_at))) =>
    /\ tick_sent = SetToBag(Due(started_at, seen_size))
    /\ Persisted(Mine) = Entry(seen_size, TRUE)

\* a cold start on one record, then an append of one record
C6_Witness ==
  /\ TickDoneOk
  /\ prev_size = HeaderSize + RecordSize
  /\ started_at = HeaderSize + RecordSize
  /\ seen_size = HeaderSize + 2 * RecordSize
  /\ tick_sent = SetToBag({HeaderSize + RecordSize})
  /\ recovery = "none"

\* the file has not grown since the position `pos` was persisted
UnchangedFile(pos, size) ==
  pos = size \/ (size >= HeaderSize /\ pos = RoundDown(size))

\* C7: a tick that loads a last_position equal to the file size, or to the
\* file size rounded down to a record boundary past the header, skips the
\* update: no worker is started, nothing is flushed and the checkpoint file
\* is not written.
C7_UnchangedFileNoop ==
  (last_tick \in {"running", "ok", "noop", "error"} /\ UnchangedFile(started_at, seen_size)) =>
    /\ last_tick = "noop"
    /\ pc = "idle"
    /\ tick_sent = EmptyBag
    /\ tick_writes = 0
    /\ FileAsLoaded

C7_Witness ==
  /\ last_tick = "noop"
  /\ pc = "idle"
  /\ started_at = HeaderSize + 2 * RecordSize
  /\ seen_size = started_at
  /\ Persisted(Mine).last_position = started_at

\* C8: whatever the offset and the file size, no record that get_scid_np
\* decodes starts below byte 56, and with an offset below 56 the first record
\* read, if there is one, starts at byte 56.
C8_HeaderNeverDecoded ==
  pc = "returned" =>
    /\ \A o \in ArrOffsets(arr) : o >= HeaderSize
    /\ (last_position < HeaderSize /\ arr.count > 0 => arr.start = HeaderSize)

C8_Witness ==
  /\ pc = "returned"
  /\ last_position < HeaderSize
  /\ last_position > 0
  /\ arr.count = 2
  /\ arr.start = HeaderSize

\* C9: a tick on a file with a partial trailing record decodes complete
\* records only and leaves last_position persisted at the last record
\* boundary; the tick after it, once the record is complete, starts decoding
\* at that boundary and delivers the record exactly once.
C9_PartialRecordDeferred ==
  /\ (InTick \/ last_tick \in {"ok", "noop"} =>
        \A o \in ArrOffsets(arr) : o + RecordSize <= seen_size)
  /\ (pc = "idle" /\ last_tick \in {"ok", "noop"}
        /\ seen_size >= HeaderSize /\ ~Aligned(seen_size) =>
        Persisted(Mine).last_position = RoundDown(seen_size))
  /\ (TickDoneOk /\ prev_size >= HeaderSize /\ ~Aligned(prev_size)
        /\ started_at = RoundDown(prev_size) /\ seen_size >= started_at + RecordSize =>
        /\ arr.start = started_at
        /\ CopiesIn(started_at, tick_sent) = 1)

\* the tick before saw one record and 24 bytes, this one the second record
C9_Witness ==
  /\ TickDoneOk
  /\ prev_size = HeaderSize + RecordSize + 24
  /\ started_at = HeaderSize + RecordSize
  /\ seen_size = HeaderSize + 2 * RecordSize
  /\ arr = [start |-> HeaderSize + RecordSize, count |-> 1]
  /\ CopiesIn(HeaderSize + RecordSize, tick_sent) = 1

\* C10: a tick that finds the file shorter than the header submits nothing
\* to the database and neither creates nor changes the checkpoint file.
C10_ShortFileNoop ==
  (last_tick \in {"running", "ok", "noop", "error"} /\ seen_size < HeaderSize) =>
    /\ tick_sent = EmptyBag
    /\ tick_writes = 0
    /\ FileAsLoaded

\* the last_position values a checkpoint can hold in the model
Positions == { HeaderSize + k * RecordSize : k \in 0..MaxRecords }

\* C11: when the process has died in the checkpoint save, the checkpoint
\* file holds a complete document: the file as the tick found it, or the
\* loaded document with the new entry of the stream; it is never left empty
\* or partly written.
C11_SaveAtomic ==
  (pc = "exited" /\ last_tick = "killed_in_save") =>
    \/ checkpoint_file = loaded
    \/ \E pos \in Positions :
         checkpoint_file = ValidFile(updated_doc(load_checkpoint(loaded), pos))

\* C12: after a tick whose checkpoint save failed, the checkpoint file gives
\* the next tick the last_position that the failed tick started from.
C12_SaveFailureKeepsPosition ==
  (pc = "idle" /\ last_tick = "savefail") =>
    Persisted(Mine).last_position = started_at

\* the tick has gone through the checkpoint load and the process is alive
TickLoaded ==
  /\ pc # "exited"
  /\ last_tick \in {"running", "ok", "noop", "error", "nofile", "loaderror", "savefail"}

\* C13: a tick that finds the checkpoint file absent, unreadable or not
\* valid JSON is not aborted by the load: it goes on with an empty map and
\* last_position = 0.
C13_LoadFailureGivesEmptyMap ==
  (TickLoaded /\ loaded.state \in {"absent", "unreadable", "corrupt"}) =>
    /\ last_tick # "loaderror"
    /\ started_at = 0
    /\ (pc = "fanout" => checkpoint_data = EmptyDoc /\ last_position = 0)

\* C14: a tick that loaded a valid document and saved the checkpoint leaves
\* every other stream's entry in the file as it was loaded, and the stream's
\* own entry is the new position with initial_load_done.
C14_SaveKeepsOtherStreams ==
  (TickDoneOk /\ loaded.state = "valid") =>
    /\ \A s \in Streams \ {Mine} : Persisted(s) = loaded.doc[s]
    /\ Persisted(Mine) = Entry(new_position, TRUE)

\* both streams had an entry, and the tick advanced this stream's
C14_Witness ==
  /\ TickDoneOk
  /\ loaded.state = "valid"
  /\ loaded.doc["other"].present
  /\ loaded.doc[Mine] = Entry(HeaderSize + RecordSize, TRUE)
  /\ Persisted(Mine) = Entry(HeaderSize + 2 * RecordSize, TRUE)
  /\ Persisted("other") = loaded.doc["other"]

\* the row indices of window w
WinRows(w) == w[1]..(w[2] - 1)

\* C15: for N rows and a batch size of at least 1 the planner enqueues
\* ceil(N / batch_size) windows, none empty and none longer than the batch
\* size, pairwise disjoint, that together are exactly the rows 0..N-1;
\* 2,000,000 rows in batches of 200,000 give 10 windows.
C15_PlannerCoversRows ==
  pc = "planned" =>
    /\ Len(batches) = (arr.count + BATCH_SIZE - 1) \div BATCH_SIZE
    /\ \A i \in 1..Len(batches) :
         /\ 0 < batches[i][2] - batches[i][1]
         /\ batches[i][2] - batches[i][1] <= BATCH_SIZE
    /\ \A i, j \in 1..Len(batches) :
         i # j => WinRows(batches[i]) \cap WinRows(batches[j]) = {}
    /\ UNION { WinRows(batches[i]) : i \in 1..Len(batches) } = 0..(arr.count - 1)
    /\ Len(plan_batches(2000000, 200000)) = 10

\* 11 rows in batches of 4: the last window is the short one
C15_Witness ==
  /\ pc = "planned"
  /\ arr.count = 11
  /\ BATCH_SIZE = 4
  /\ batches = << << 0, 4 >>, << 4, 8 >>, << 8, 11 >> >>

\* the workers that hold a window they have popped
Holding == { w \in Workers : wwin[w] # NoWin }

\* C16: the deque is drained first in, first out: a window that a worker has
\* popped and is sending starts below every window still in the deque.
C16_QueueIsFifo ==
  \A w \in Workers :
    wstate[w] = "sending" =>
      \A i \in 1..Len(batches) : wwin[w][1] < batches[i][1]

\* C17: whatever the interleaving of the workers, a window is held by at
\* most one of them and is no longer in the deque, and no record is
\* submitted twice in a tick: the rows of the windows in flight and the
\* records already flushed are pairwise disjoint.
C17_WindowPoppedOnce ==
  /\ \A w \in Holding :
       /\ \A v \in Holding \ {w} : WinRows(wwin[w]) \cap WinRows(wwin[v]) = {}
       /\ \A i \in 1..Len(batches) : batches[i] # wwin[w]
       /\ \A o \in WinOffsets(arr, wwin[w]) : CopiesIn(o, tick_sent) = 0
  /\ \A o \in BagToSet(tick_sent) : CopiesIn(o, tick_sent) = 1

\* two workers are sending at the same time, each its own window
C17_Witness ==
  /\ pc = "fanout"
  /\ wstate[1] = "sending"
  /\ wstate[2] = "sending"
  /\ wwin[1] = << 1, 2 >>
  /\ wwin[2] = << 0, 1 >>
  /\ batches = << >>

\* C18: a process that has ended because a tick ended with a worker failure
\* has ended with an exit code that is not zero.
C18_WorkerFailureExitsNonZero ==
  (pc = "exited" /\ last_tick = "workerfail") =>
    /\ exit_code # Running
    /\ exit_code # 0

\* the ways a tick raises an exception that is neither a worker failure nor
\* an interrupt: ValueError in get_scid_np, the source file is missing, the
\* checkpoint file cannot be opened, the checkpoint save fails
OtherException == {"error", "nofile", "loaderror", "savefail"}

\* C19: after a tick that raised an exception other than a worker failure
\* or an interrupt the process is still running, in its 60-second sleep,
\* from which the next tick starts; the last_position in the checkpoint file
\* is not beyond the one the tick had loaded.
C19_OtherExceptionRetries ==
  last_tick \in OtherException =>
    /\ pc = "idle"
    /\ exit_code = Running
    /\ sleep_for = RetrySleep
    /\ ENABLED main_begin
    /\ Persisted(Mine).last_position <= started_at

\* the source file is missing although the checkpoint has a position
C19_Witness ==
  /\ last_tick = "nofile"
  /\ ~file_exists
  /\ pc = "idle"
  /\ sleep_for = RetrySleep
  /\ Persisted("other").present

\* C20: once the interrupt has arrived during fan-out no window leaves the
\* deque any more, and the process then ends with exit code zero.
C20_InterruptStopsPops ==
  [][ /\ (pc = "draining" => batches' = batches)
      /\ (pc = "draining" /\ pc' = "exited" => exit_code' = 0) ]_vars

\* C28: in every checkpoint state, initial_load_done is true for the stream
\* only if at least one of its records has been flushed to the database.
C28_DoneOnlyAfterFlush ==
  Persisted(Mine).initial_load_done => flushed # {}

\* C29: every row the ingester submits carries front_contract = false and
\* the symbol and symbol_period parsed from the stream's file name, the same
\* for all rows of the tick.
C29_RowsCarryStream ==
  pc = "submitted" =>
    /\ Len(df_processed) = arr.count
    /\ \A i \in 1..Len(df_processed) :
         /\ df_processed[i].front_contract = FALSE
         /\ df_processed[i].symbol = parse_file_name(file_name).symbol
         /\ df_processed[i].symbol_period = parse_file_name(file_name).symbol_period

C29_Witness ==
  /\ pc = "submitted"
  /\ Len(df_processed) = 2
  /\ df_processed[1].symbol = << "E", "E" >>
  /\ df_processed[2].symbol_period = << "E", "5" >>

\* the stem reads as k capitals, a capital and a digit, a dot, and one or
\* more capitals up to its end
Reads(s, k) ==
  /\ Len(s) > k + 3
  /\ \A i \in 1..Len(s) :
       CASE i = k + 2 -> s[i] \in Digits
         [] i = k + 3 -> s[i] = "."
         [] OTHER -> s[i] \in UpperCase
DotsOf(s) == { i \in 1..Len(s) : s[i] = "." }
\* the position of the first dot after position i, or one past the end
DotAfter(s, i) ==
  IF \E j \in DotsOf(s) : j > i
  THEN CHOOSE j \in DotsOf(s) : j > i /\ \A h \in DotsOf(s) : h > i => j <= h
  ELSE Len(s) + 1

Present(b) == { p \in Periods : b[p].fronts # {} }
TrueOn(b) == { p \in Periods : TRUE \in b[p].fronts }
\* the (day, symbol) of the last call as the transaction sees it now
SliceNow == Slice(txn, last_call.symbol, last_call.day)
Returned == last_call.outcome \in {"skipped", "marked"}

\* C21: after deduplicate_data has completed without error for a (day,
\* symbol) of two or more periods, all rows of exactly one period are true,
\* that period has the maximum total volume, and all rows of every other
\* period are false.
C21_MarksMaxVolume ==
  (Returned /\ Cardinality(Present(last_call.before)) >= 2) =>
    /\ last_call.outcome = "marked"
    /\ Present(SliceNow) = Present(last_call.before)
    /\ \E p \in Present(SliceNow) :
         /\ SliceNow[p].fronts = {TRUE}
         /\ \A q \in Present(SliceNow) : SliceNow[q].volume <= SliceNow[p].volume
         /\ \A q \in Present(SliceNow) \ {p} : SliceNow[q].fronts = {FALSE}

\* U5 with volume 2, Z5 with volume 3, H6 with volume 1: Z5 is marked
C21_Witness ==
  /\ last_call.outcome = "marked"
  /\ last_call.before = [p \in Periods |->
                           Rows(CASE p = U5 -> 2 [] p = Z5 -> 3 [] OTHER -> 1, {FALSE})]
  /\ SliceNow = [p \in Periods |->
                   Rows(CASE p = U5 -> 2 [] p = Z5 -> 3 [] OTHER -> 1, {p = Z5})]

\* characters in the order of their codes
CharOrder == << "0", "1", "2", "3", "4", "5", "6", "7", "8", "9" >> \o UpperLetters \o LowerLetters
CharRank(c) == CHOOSE i \in 1..Len(CharOrder) : CharOrder[i] = c
\* str < str
LexLess(a, b) ==
  \E i \in 1..(Len(b)) :
    /\ \A j \in 1..(i - 1) : j <= Len(a) /\ a[j] = b[j]
    /\ i > Len(a) \/ (i <= Len(a) /\ CharRank(a[i]) < CharRank(b[i]))
MaxPeriods(b) == { p \in Present(b) : \A q \in Present(b) : b[q].volume <= b[p].volume }

\* C22: when two or more periods share the maximum volume, the marker
\* marks the lexicographically smallest of them.
C22_TieMarksSmallest ==
  (last_call.outcome = "marked" /\ Cardinality(MaxPeriods(last_call.before)) >= 2) =>
    \E p \in MaxPeriods(last_call.before) :
      /\ SliceNow[p].fronts = {TRUE}
      /\ \A q \in MaxPeriods(last_call.before) \ {p} : LexLess(p, q)

\* C23: an error in deduplicate_data for (D, S) leaves what the open
\* transaction holds for every other (day, symbol) as it was, and the pass
\* goes on with the next symbol or the commit of the day.
C23_ErrorUndoesOnlyItsOwn ==
  [][dedup_error =>
       /\ \A sym \in MarkerSymbols, d \in Days :
            << sym, d >> # << symbol_now, date_str >> =>
              Slice(txn', sym, d) = Slice(txn, sym, d)
       /\ mpc' \in {"select", "commit"}]_vars

\* C24: a call of deduplicate_data on a (day, symbol) the marker has marked
\* before, with no rows added or changed since, leaves every row's
\* front_contract as it was.
C24_RerunChangesNothing ==
  (last_call.outcome = "marked" /\ TrueOn(last_call.before) # {}) =>
    SliceNow = last_call.before

\* C25: for a (day, symbol) of fewer than two periods deduplicate_data
\* returns without an UPDATE: every row's front_contract is as it was, and
\* only the one period can hold a true.
C25_SinglePeriodUntouched ==
  (Returned /\ Cardinality(Present(last_call.before)) < 2) =>
    /\ last_call.outcome = "skipped"
    /\ SliceNow = last_call.before
    /\ TrueOn(SliceNow) \subseteq Present(last_call.before)

C25_Witness ==
  /\ last_call.outcome = "skipped"
  /\ Present(last_call.before) = {U5}
  /\ SliceNow[U5] = Rows(MaxVolume, {FALSE})

DaysFrom(a, b) == [i \in 1..(b - a + 1) |-> a + i - 1]

\* C26: a pass processes every day from the day of start_date to today, in
\* increasing order, and commits once after each, whether start_date comes
\* from --date or from the earliest time of the table.
C26_EveryDayCommitted ==
  (mpc = "done" /\ all_symbols # << >>) =>
    /\ commits = DaysFrom(strftime_day(start_date), Today)
    /\ { c[1] : c \in { calls[i] : i \in 1..Len(calls) } } =
         { d \in Days : d >= strftime_day(start_date) }

\* the symbols deduplicate_data was called for on day d, in the order of the calls
CallsOn(d) ==
  LET OnDay(c) == c[1] = d
      on == SelectSeq(calls, OnDay)
  IN [i \in 1..Len(on) |-> on[i][2]]
InList(x) == \E i \in 1..Len(all_symbols) : all_symbols[i] = x
\* the symbol x of the list and those after it
FromOn(x) ==
  LET at == CHOOSE i \in 1..Len(all_symbols) : all_symbols[i] = x
  IN [i \in 1..(Len(all_symbols) - at + 1) |-> all_symbols[at + i - 1]]
\* what a pass resumed from x processes on a day it has committed
Resumed(x, d) ==
  IF d = strftime_day(start_date) /\ InList(x) THEN FromOn(x) ELSE all_symbols

\* C27 as claimed: with a resume-from symbol that is in the symbol list the
\* first day processes that symbol and those after it and every later day
\* all symbols; with one that is not in the list every day processes all.
C27_ResumeFromGiven ==
  \A i \in 1..Len(commits) : CallsOn(commits[i]) = Resumed(args.symbol, commits[i])

\* C27 amended: the same with the upper-cased resume-from symbol: the first
\* day processes the upper-cased symbol and those after it when it is in
\* the list, every later day all symbols, and every day all symbols when
\* the upper-cased symbol is not in the list or none is given.
C27_ResumeFromUpper ==
  \A i \in 1..Len(commits) : CallsOn(commits[i]) = Resumed(upper(args.symbol), commits[i])

C27_Witness ==
  /\ mpc = "done"
  /\ args.symbol = es
  /\ all_symbols = << NQ, ES, es >>
  /\ commits = << 0, 1 >>
  /\ CallsOn(0) = << ES, es >>
  /\ CallsOn(1) = << NQ, ES, es >>

\* ------------------------------------------ PostgreSQL variant (scid_to_pg)
\* main's local checkpoint_data while no statement has assigned it
Unbound ==
  [s \in Streams |-> [present |-> FALSE, last_position |-> -1, initial_load_done |-> FALSE]]

\* if checkpoint_file.exists(): checkpoint_data = json.load(f), or {} on
\* JSONDecodeError; without a file no statement assigns checkpoint_data
pg_load_checkpoint(f) == IF f.state = "absent" THEN Unbound ELSE load_checkpoint(f)

\* table_data.get("last_position", 0), and 0 without a checkpoint file
pg_last_position(f) == load_checkpoint(f)[Mine].last_position

\* scid_to_pg.get_scid_np: the same statements as in scid_to_qdb
pg_get_scid_np(fsize, offset) == get_scid_np(fsize, offset)

\* conn.copy_records_to_table: every record adds a row, the table of the
\* PostgreSQL variant has no unique key
copy_records_to_table(table, offs) ==
  [t \in DOMAIN table |-> table[t] + Cardinality({o \in offs : time_at(o) = t})]

\* what the loader's variables of the QuestDB fan-out keep in this variant
pg_unused == << seen_size, prev_size, batches, wstate, wwin, flushed, tick_sent,
                tick_writes, high_water, recovery, BATCH_SIZE, file_exists,
                sleep_for, stream_vars, marker_vars >>

\* an exception leaves main: the module loop has no try, the process ends
pg_process_dies(why) ==
  /\ pc' = "exited"
  /\ exit_code' = 1
  /\ last_tick' = why

\* main up to the test for new data: load the checkpoint when the file
\* exists, read the source file from last_position
pg_main_begin ==
  /\ pc = "idle"
  /\ loaded' = checkpoint_file
  /\ checkpoint_data' = pg_load_checkpoint(checkpoint_file)
  /\ started_at' = pg_last_position(checkpoint_file)
  /\ LET lp == pg_last_position(checkpoint_file)
         r == pg_get_scid_np(file_size, lp)
     IN  IF r.raises
         THEN /\ pg_process_dies("error")
              /\ UNCHANGED << last_position, new_position, arr >>
         ELSE /\ last_position' = lp
              /\ new_position' = r.new_position
              /\ arr' = [start |-> r.start, count |-> r.count]
              /\ pc' = IF has_new_data(r.new_position, lp) THEN "pgload" ELSE "idle"
              /\ last_tick' = IF has_new_data(r.new_position, lp) THEN "running" ELSE "noop"
              /\ UNCHANGED exit_code
  /\ UNCHANGED << file_size, recs, checkpoint_file, db, pg_unused >>

\* load_data_to_db returns: the records are copied into the table
pg_load_data_to_db ==
  /\ pc = "pgload"
  /\ db' = copy_records_to_table(db, ArrOffsets(arr))
  /\ last_position' = new_position
  /\ pc' = "pgsave"
  /\ last_tick' = "loaded"
  /\ UNCHANGED << file_size, recs, checkpoint_file, new_position, checkpoint_data,
                  arr, started_at, loaded, exit_code, pg_unused >>

\* with open(checkpoint_file, "w") creates or truncates the file; then the
\* item assignment raises UnboundLocalError when checkpoint_data is not
\* bound, or json.dump writes the updated document
pg_main_save ==
  /\ pc = "pgsave"
  /\ IF checkpoint_data = Unbound
     THEN /\ checkpoint_file' = CorruptFile
          /\ pg_process_dies("unbound")
          /\ UNCHANGED checkpoint_data
     ELSE /\ checkpoint_data' = updated_doc(checkpoint_data, last_position)
          /\ checkpoint_file' = ValidFile(updated_doc(checkpoint_data, last_position))
          /\ pc' = "idle"
          /\ last_tick' = "ok"
          /\ UNCHANGED exit_code
  /\ UNCHANGED << file_size, recs, last_position, new_position, arr, db,
                  started_at, loaded, pg_unused >>

InitPg ==
  /\ file_size = 0
  /\ recs = << >>
  /\ checkpoint_file \in {AbsentFile, ValidFile(OtherDoc), CorruptFile}
  /\ pc = "idle"
  /\ last_position = 0
  /\ new_position = 0
  /\ checkpoint_data = Unbound
  /\ seen_size = 0
  /\ prev_size = 0
  /\ arr = NoArr
  /\ batches = << >>
  /\ wstate = [w \in Workers |-> "ok"]
  /\ wwin = [w \in Workers |-> NoWin]
  /\ db = [t \in Times |-> 0]
  /\ flushed = {}
  /\ tick_sent = EmptyBag
  /\ tick_writes = 0
  /\ last_tick = "none"
  /\ started_at = 0
  /\ high_water = 0
  /\ recovery = "none"
  /\ BATCH_SIZE = BatchSize
  /\ file_exists = TRUE
  /\ loaded = AbsentFile
  /\ exit_code = Running
  /\ sleep_for = 0
  /\ stream_configured
  /\ marker_off

NextPg ==
  \/ producer_append
  \/ pg_main_begin
  \/ pg_load_data_to_db
  \/ pg_main_save
  \/ restart

SpecPg == InitPg /\ [][NextPg]_vars

\* ------------------------------------------------------ claims C31..C38
\* the workers that have ended with failure on a window they had popped
FailedOn == { w \in Workers : wstate[w] = "failed" /\ wwin[w] # NoWin }
\* the windows the planner enqueued for the decoded array
Planned == plan_batches(arr.count, BATCH_SIZE)

\* C32: a worker whose submit or flush of a window has failed can pop no
\* further window; its window is not in the deque, is held by no sibling and
\* none of its records is flushed in this tick; a sibling that has not
\* ended still pops while the deque holds windows, and when every worker
\* has ended and one of them ended successfully the deque is empty.
C32_FailedWindowNotRetried ==
  /\ \A w \in FailedOn :
       /\ ~ ENABLED send_batch_pop(w)
       /\ \A i \in 1..Len(batches) : batches[i] # wwin[w]
       /\ \A v \in Workers \ {w} : wwin[v] # wwin[w]
       /\ \A o \in WinOffsets(arr, wwin[w]) : CopiesIn(o, tick_sent) = 0
  /\ \A v \in Workers :
       (FailedOn # {} /\ wstate[v] \in {"start", "ready"} /\ batches # << >>)
         => ENABLED send_batch_pop(v)
  /\ (pc = "fanout" /\ all_returned /\ \E v \in Workers : wstate[v] = "ok")
       => batches = << >>

\* one worker failed on the second window, its sibling flushed the first
\* one and ended on the empty deque
C32_Witness ==
  /\ pc = "fanout"
  /\ wstate[1] = "failed"
  /\ wwin[1] = << 1, 2 >>
  /\ wstate[2] = "ok"
  /\ batches = << >>
  /\ BagCardinality(tick_sent) = 1

\* C33: with threads that are scheduled and calls that return or raise, a
\* fan-out ends: every worker ends its loop, and load_data_to_questdb
\* returns or raises WorkerFailureException, for every number of windows,
\* also fewer windows than workers; a worker that connected and finds the
\* deque empty on its first pop ends successfully.
C33_FanOutTerminates ==
  /\ (pc = "fanout") ~> (pc \in {"save", "exited"})
  /\ \A w \in Workers :
       (pc = "fanout" /\ wstate[w] \in {"start", "ready", "sending"})
         ~> (wstate[w] \in {"ok", "failed"})
  /\ [][\A w \in Workers :
          (pc = "fanout" /\ wstate[w] = "start" /\ batches = << >>
             /\ wstate'[w] \notin {"start", "failed"})
            => wstate'[w] = "ok"]_vars

\* load_data_to_questdb has returned from a fan-out of one window over two
\* workers, one of which found the deque empty on its first pop
C33_Witness ==
  /\ pc = "save"
  /\ Len(Planned) = 1
  /\ Len(Planned) < ParallelWorkers
  /\ BagCardinality(tick_sent) = 1

\* C35: when load_data_to_questdb has returned normally the deque is empty,
\* every record of every planned window has been flushed exactly once in
\* this tick and nothing else has been.
C35_NormalReturnDrained ==
  pc = "save" =>
    /\ batches = << >>
    /\ \A i \in 1..Len(Planned) :
         \A o \in WinOffsets(arr, Planned[i]) : CopiesIn(o, tick_sent) = 1
    /\ BagToSet(tick_sent) \subseteq ArrOffsets(arr)

C35_Witness ==
  /\ pc = "save"
  /\ Len(Planned) = 2
  /\ BagCardinality(tick_sent) = 2

\* C38: table creation is the first step of a tick: it can fail only while
\* no worker of the tick has started, and when it fails the process ends
\* with an exit code that is not zero, the table and the checkpoint file stay
\* as they were and no record is submitted.
C38_TableFailureExitsNonZero ==
  [][main_create_table_fail =>
       /\ pc = "idle"
       /\ pc' = "exited"
       /\ exit_code' \notin {0, Running}
       /\ db' = db
       /\ flushed' = flushed
       /\ tick_sent' = EmptyBag
       /\ checkpoint_file' = checkpoint_file]_vars

\* the process has ended on a failed table creation in a tick that followed
\* a successful one, with records still to deliver
C38_Witness ==
  /\ pc = "exited"
  /\ last_tick = "tablefail"
  /\ exit_code = 1
  /\ Persisted(Mine).present
  /\ file_size > Persisted(Mine).last_position

\* a submit, a flush or a checkpoint write fails, or the operator kills the
\* process or resets the checkpoint
Fault ==
  \/ \E w \in Workers : send_batch_connect_fail(w) \/ send_batch_flush_fail(w)
  \/ main_save_open_fail
  \/ main_save_dump_fail
  \/ kill
  \/ manual_reset
\* the size of the source file rounded down to a record boundary
Caught == HeaderSize + RecordSize * ((file_size - HeaderSize) \div RecordSize)

\* C34: when the source file has at least 56 bytes and from some point on
\* nothing fails (the file, being bounded, stops growing), the persisted
\* last_position of the stream eventually equals the file size rounded
\* down to a record boundary and stays there.
C34_CatchUp ==
  (<>[](file_size >= HeaderSize) /\ <>[][~ Fault]_vars)
    => <>[](Persisted(Mine).present /\ Persisted(Mine).last_position = Caught)

\* the rows an upsert-free table holds when every record of the source
\* file below `pos` has been loaded once
LoadedOnce(pos) ==
  [t \in Times |-> Cardinality({o \in RecordsOf(pos) : time_at(o) = t})]

\* C31: in the PostgreSQL variant a tick that found no checkpoint file and
\* has loaded its records leaves, once it is over, a checkpoint file with
\* the stream's entry {last_position: new_position, initial_load_done:
\* true}; and no record is ever loaded twice.
C31_ColdStartCreatesCheckpoint ==
  /\ (pc \in {"idle", "exited"} /\ loaded = AbsentFile /\ last_tick \in {"ok", "unbound"})
       => /\ checkpoint_file.state = "valid"
          /\ Persisted(Mine) = Entry(new_position, TRUE)
  /\ \A t \in Times : db[t] <= LoadedOnce(file_size)[t]

\* C36: once a pass of the marker has marked a (date, symbol), the rows of
\* the period it chose are all front_contract = true, also after every
\* later ingestion tick.
C36_IngestKeepsMarking ==
  (mpc = "done" /\ last_call.outcome = "marked")
    => \E p \in Periods :
         trades[<< last_call.symbol, last_call.day, p >>].fronts = {TRUE}

\* a statement of deduplicate_data, or its error handler
DedupStep == dedup_select \/ dedup_update_false \/ dedup_update_true \/ dedup_error

\* C37: a step of deduplicate_data for (date D, symbol S) leaves the volume
\* of every row as it is and changes no row of another symbol or date.
C37_DedupFrame ==
  [][DedupStep =>
       \A k \in Keys :
         /\ txn'[k].volume = txn[k].volume
         /\ (k[1] # symbol_now \/ k[2] # date_str) => txn'[k] = txn[k]]_vars

====
